---- MODULE Spec2Model ----
(***************************************************************************)
(* A model of galaxy_local_repo/local_repo.py: the LocalRepoPlugin that    *)
(* scans the local repository root, keeps the catalog repo_metadata,       *)
(* mirrors it into local_repo.json and installs games on request.          *)
(*                                                                         *)
(* The plugin runs on one asyncio event loop.  A coroutine runs without    *)
(* interruption up to an await that really suspends, so an action of this  *)
(* module is one such uninterrupted stretch of a handler:                  *)
(*   - tick() queues check_for_new_games and check_for_installed back to   *)
(*     back; the first runs up to `await asyncio.sleep(5)` (get_games      *)
(*     holds no await, so `await self.get_games()` does not suspend), the  *)
(*     second runs to its end (its asyncio.sleep(5) is not awaited);       *)
(*   - the wake-up after the sleep clears the guard flag;                  *)
(*   - install_game suspends while the child process runs.                 *)
(***************************************************************************)
EXTENDS Integers, FiniteSets, Sequences, TLC

\* ------------------------------------------------------------ bounds
MaxDirs == 2        \* candidate sub-directories of LOCAL_REPO_DIR
MaxFsOps == 2       \* changes the user makes to the repository root
MaxInstalls == 1    \* install_game calls suspended at the same time

Dirs == 1 .. MaxDirs

\* ------------------------------------------------------------ values
NoUuid == 0                 \* metadata.get("uuid") is None or ""
NoTitle == "<no title>"     \* the descriptor has no "title" key
NoInstaller == "<none>"     \* metadata.get("installer_file") is None
GameTitle == "Game A"
SetupCmd == "setup.cmd"

EmptyMap == [x \in {} |-> x]

Put(f, k, v) == [x \in DOMAIN f \cup {k} |-> IF x = k THEN v ELSE f[x]]

Drop(f, ks) == [x \in DOMAIN f \ ks |-> f[x]]

\* A sub-directory of the root: absent, without game.json ("nodesc"), with a
\* game.json json.load cannot parse ("corrupt"), or with a parsed descriptor.
DirEntry(kind, uuid, title, installer) ==
    [kind |-> kind, uuid |-> uuid, title |-> title, installer |-> installer]

AbsentDir == DirEntry("absent", NoUuid, NoTitle, NoInstaller)

\* What the user can put into a new sub-directory (a descriptor written by
\* hand or by mover.py carries no uuid).
NewDirEntries ==
    { DirEntry("nodesc", NoUuid, NoTitle, NoInstaller),
      DirEntry("corrupt", NoUuid, NoTitle, NoInstaller),
      DirEntry("desc", NoUuid, GameTitle, SetupCmd),
      DirEntry("desc", NoUuid, GameTitle, NoInstaller),
      DirEntry("desc", NoUuid, NoTitle, SetupCmd) }

\* LocalRepoGame(game_id=..., game_title=..., location=str(item),
\*               installer=metadata.get("installer_file"), ...): installed
\* takes the dataclass default False.  The game_id is the catalog key.
LocalRepoGame(game_title, location, installer) ==
    [game_title |-> game_title, location |-> location,
     installer |-> installer, installed |-> FALSE]

\* GameEncoder.default: the JSON object written for one record.
GameEncoder(obj) ==
    [title |-> obj.game_title, location |-> obj.location,
     installer |-> obj.installer, installed |-> obj.installed]

\* json.dump(self.repo_metadata, self.repo_metadata_file.open(mode="w"), ...)
JsonDump(catalog) ==
    [state |-> "json", data |-> [id \in DOMAIN catalog |-> GameEncoder(catalog[id])]]

\* repo_metadata_file.touch() on a root without local_repo.json: zero bytes.
EmptyFile == [state |-> "empty", data |-> EmptyMap]

\* What local_repo.json holds when the process ends inside
\* json.dump(..., repo_metadata_file.open(mode="w"), ...) of the given
\* content: open(mode="w") has cut the file to zero bytes, and of the text
\* of the dump none ("empty") or, when the dump holds records, only a first
\* part ("partial") has reached the disk.
TornFiles(file) ==
    { EmptyFile } \cup
    { [state |-> "partial", data |-> EmptyMap] : x \in DOMAIN file.data }

VARIABLES
    fs,                       \* Dirs -> DirEntry: the repository root on disk
    repo_metadata_file,       \* content of local_repo.json
    repo_metadata,            \* game_id -> LocalRepoGame
    new_game_task_running,    \* Event: guard of check_for_new_games
    installed_task_running,   \* Event: guard of check_for_installed
    cng_sleeping,             \* check_for_new_games calls suspended in sleep(5)
    cng_parked,               \* check_for_new_games calls suspended in
                              \* `await self.get_games()`, each with its
                              \* ids_before and the ids of the list it got
    inst,                     \* the install_game calls suspended in
                              \* proc.communicate(): game_id -> whether the
                              \* object the call holds in `game` is still the
                              \* one repo_metadata[game_id] is bound to
    host_games,               \* the ids this process has passed to add_game
                              \* and not to remove_game since
    uuids_issued,             \* uuid4() calls so far; the n-th call returns n
    fs_ops,                   \* changes made to the root so far
    quiet,                    \* a reconciliation ran in this process and the
                              \* user has not changed the root since
    ev                        \* what the last handler did

vars == << fs, repo_metadata_file, repo_metadata, new_game_task_running,
           installed_task_running, cng_sleeping, cng_parked, inst,
           host_games, uuids_issued, fs_ops, quiet, ev >>

\* The record of one handler stretch: the notifications it sent to the host
\* (adds, removes), the catalog ids it started from (before), whether it
\* scanned and the game_uuid the scan had for each directory it came to (ids),
\* whether it wrote local_repo.json, what became of the call (cng, res), for
\* a tick whether quiet held when it came (again), the calls to the host and
\* the writes of the catalog in the order the code makes them (log), and the
\* ids it passed to add_game that the host held already (dup).
Ev(op) ==
    [op |-> op, cng |-> "none", before |-> {}, adds |-> {}, removes |-> {},
     scanned |-> FALSE, raised |-> FALSE, wrote |-> FALSE,
     res |-> "none", id |-> NoUuid, code |-> 0, again |-> FALSE, log |-> << >>,
     dup |-> {},
     ids |-> [d \in Dirs |-> NoUuid]]

\* ------------------------------------------------------------ get_games

\* The existing sub-directories of the root.
Listed == { d \in Dirs : fs[d].kind # "absent" }

\* The sequences that hold each of the given items once.
RECURSIVE Sequences(_)
Sequences(items) ==
    IF items = {} THEN { << >> }
    ELSE UNION { { << x >> \o rest : rest \in Sequences(items \ {x}) } : x \in items }

AllOrders == [items \in SUBSET Dirs |-> Sequences(items)]

\* LOCAL_REPO_DIR.iterdir() lists the existing entries in an order the file
\* system chooses.  An entry without game.json is passed over wherever it
\* comes, so an order is a sequence of the sub-directories that hold one.
Orders == AllOrders[{ d \in Listed : fs[d].kind # "nodesc" }]

\* `game_uuid = str(uuid4())`: a value no descriptor holds yet.
uuid4(issued) == issued + 1

\* A variant of NeedsUuid: every scan generates a uuid, also for a
\* descriptor that holds one.
NeedsUuidAlways(game_uuid) == TRUE

\* `if not game_uuid:`
NeedsUuid(game_uuid) == game_uuid = NoUuid

\* A variant of WriteBack: the descriptor on disk keeps the uuid it had.
NoWriteBack(entry, game_uuid) == entry

\* metadata["uuid"] = game_uuid; json.dump(metadata, metadata_file.open("w"))
WriteBack(entry, game_uuid) == [entry EXCEPT !.uuid = game_uuid]

\* self.repo_metadata[game_uuid] = LocalRepoGame(...): the key is bound to a
\* new object, so an install_game call that holds the old one is cut off.
Rebind(calls, game_uuid) ==
    [id \in DOMAIN calls |-> IF id = game_uuid THEN FALSE ELSE calls[id]]

\* The body of the loop of get_games for one item.  st holds the disk, the
\* catalog, the install calls, the uuid counter and whether an exception left
\* the loop.
ScanItem(d, st) ==
    LET e == st.fs[d] IN
    IF e.kind \in {"absent", "nodesc"}
    THEN st                                    \* not listed / no game.json
    ELSE IF e.kind = "corrupt"
    THEN [st EXCEPT !.raised = TRUE]           \* json.load raises
    ELSE LET fresh == NeedsUuid(e.uuid)
             game_uuid == IF fresh THEN uuid4(st.issued) ELSE e.uuid
             fs1 == IF fresh
                    THEN [st.fs EXCEPT ![d] = WriteBack(e, game_uuid)]
                    ELSE st.fs
             issued1 == IF fresh THEN st.issued + 1 ELSE st.issued
         IN IF e.title = NoTitle
            THEN [st EXCEPT !.fs = fs1, !.issued = issued1,
                            !.ids[d] = game_uuid,
                            !.raised = TRUE]   \* metadata["title"]: KeyError
            ELSE [st EXCEPT !.fs = fs1, !.issued = issued1,
                            !.ids[d] = game_uuid,
                            !.rm = Put(st.rm, game_uuid,
                                       LocalRepoGame(e.title, d, e.installer)),
                            !.inst = Rebind(st.inst, game_uuid)]

RECURSIVE ScanFrom(_, _, _)
ScanFrom(order, i, st) ==
    IF i > Len(order) \/ st.raised THEN st
    ELSE ScanFrom(order, i + 1, ScanItem(order[i], st))

\* `return list(self.repo_metadata.values())`: the ids of the returned games.
Returned(st) == DOMAIN st.rm

\* get_games from the current state, listing the root in the given order:
\* the state it leaves; unless it raised, Returned gives the ids of the list
\* it returns.
get_games(order) ==
    ScanFrom(order, 1,
             [fs |-> fs, rm |-> repo_metadata, inst |-> inst,
              issued |-> uuids_issued, raised |-> FALSE,
              ids |-> [d \in Dirs |-> NoUuid]])

\* ------------------------------------------------------------ periodic tasks

\* A variant of AlreadyRunning: the guard lets every call through.
NeverRunning(running) == FALSE

\* `if running.is_set(): return`
AlreadyRunning(running) == running

\* A variant of new_game_ids: every scanned id counts as new.
AllIdsNew(ids_before, ids_after) == ids_after

\* new_game_ids = ids_before ^ ids_after
new_game_ids(ids_before, ids_after) ==
    (ids_before \ ids_after) \cup (ids_after \ ids_before)

\* removed_game_ids = ids_before - ids_after
removed_game_ids(ids_before, ids_after) == ids_before \ ids_after

\* A variant of any_change: the run never finds a change to persist.
NeverChanged(new, removed) == FALSE

\* any_change: set to True by either loop as soon as it has an id to handle.
any_change(new, removed) == new # {} \/ removed # {}

\* A variant of Suspends: every await hands control to the event loop.
SuspendsAlways(awaited) == TRUE

\* `await x` hands control to the event loop only when x itself waits:
\* asyncio.sleep(5) and proc.communicate() do, get_games holds no await and
\* runs through.
Suspends(awaited) == awaited \in {"asyncio.sleep", "proc.communicate"}

\* One thing a run does that the host or the disk sees: add_game and
\* remove_game with the ids they are called for and the object they pass
\* (the catalog's own, "live", or a copy of it), `del` of a catalog entry, and
\* json.dump with the ids it writes.
Step(step, ids, obj) == [step |-> step, ids |-> ids, obj |-> obj]

\* `for id_ in new_game_ids: ... self.add_game(game)`: the calls pass the
\* catalog's own records and nothing else happens in the loop.
AddLoop(new) ==
    IF new = {} THEN << >> ELSE << Step("add_game", new, "live") >>

\* `for id_ in removed_game_ids: game = copy.copy(self.repo_metadata[id_]);
\* self.remove_game(game); del self.repo_metadata[id_]`
RECURSIVE RemoveLoop(_)
RemoveLoop(removed) ==
    IF removed = {} THEN << >>
    ELSE LET id_ == CHOOSE x \in removed : TRUE
         IN << Step("remove_game", {id_}, "copy"), Step("del", {id_}, "none") >>
            \o RemoveLoop(removed \ {id_})

\* What one call of check_for_new_games does before it suspends or ends.
Cng(outcome, s, file, flag, sleeping, before, adds, removes, wrote, log) ==
    [outcome |-> outcome, fs |-> s.fs, rm |-> s.rm, inst |-> s.inst,
     issued |-> s.issued, ids |-> s.ids, file |-> file, flag |-> flag,
     sleeping |-> sleeping, before |-> before, adds |-> adds,
     removes |-> removes, wrote |-> wrote, log |-> log]

\* check_for_new_games from `if ids_after == ids_before` to
\* `await asyncio.sleep(5)`, on the state s the run finds there.
cng_body(s, ids_before, ids_after, file, sleeping) ==
    LET new == new_game_ids(ids_before, ids_after)
        removed == removed_game_ids(ids_before, ids_after)
    IN
    IF ids_after = ids_before
    THEN \* `return` before running.clear()
         Cng("same", s, file, TRUE, sleeping, ids_before, {}, {}, FALSE, << >>)
    ELSE IF ~ (new \subseteq DOMAIN s.rm)
    THEN \* self.repo_metadata[id_]: KeyError in the first loop
         Cng("raised", s, file, TRUE, sleeping, ids_before,
             new \cap DOMAIN s.rm, {}, FALSE, AddLoop(new \cap DOMAIN s.rm))
    ELSE \* add_game for each new id; remove_game and del for each removed
         \* id; the catalog is dumped when any_change is set; then sleep(5)
         LET kept == Drop(s.rm, removed)
             s2 == [s EXCEPT !.rm = kept,
                             !.inst = [id \in DOMAIN s.inst |->
                                 IF id \in removed THEN FALSE ELSE s.inst[id]]]
             dump == any_change(new, removed)
         IN Cng("changed", s2, IF dump THEN JsonDump(kept) ELSE file, TRUE,
                sleeping + 1, ids_before, new, removed, dump,
                AddLoop(new) \o RemoveLoop(removed) \o
                    (IF dump THEN << Step("json.dump", DOMAIN kept, "none") >>
                             ELSE << >>))

\* check_for_new_games from the return of get_games, whose outcome is s, to
\* the first suspension or the end of the run.
cng_scanned(s, ids_before) ==
    IF s.raised
    THEN \* the exception ends the task; running stays set
         Cng("raised", s, repo_metadata_file, TRUE, cng_sleeping,
             ids_before, {}, {}, FALSE, << >>)
    ELSE IF Suspends("get_games")
    THEN \* the run waits at `await self.get_games()` with the list it got
         Cng("parked", s, repo_metadata_file, TRUE, cng_sleeping,
             ids_before, {}, {}, FALSE, << >>)
    ELSE cng_body(s, ids_before, Returned(s), repo_metadata_file, cng_sleeping)

\* What check_for_new_games does when it finds its flag set: nothing.
cng_dropped ==
    Cng("dropped",
        [fs |-> fs, rm |-> repo_metadata, inst |-> inst,
         issued |-> uuids_issued, ids |-> [d \in Dirs |-> NoUuid]],
        repo_metadata_file, new_game_task_running, cng_sleeping,
        {}, {}, {}, FALSE, << >>)

\* check_for_new_games on a scan of outcome s.
check_for_new_games_after(s) ==
    IF AlreadyRunning(new_game_task_running)
    THEN cng_dropped
    ELSE cng_scanned(s, DOMAIN repo_metadata)

\* check_for_new_games from its start to its first suspension or its end,
\* the root being listed in the given order.
check_for_new_games(order) ==
    IF AlreadyRunning(new_game_task_running)
    THEN cng_dropped
    ELSE cng_scanned(get_games(order), DOMAIN repo_metadata)

\* [x for x in games.values() if x.installed], sorted by game_id
InstalledGames(games) ==
    [id \in { i \in DOMAIN games : games[i].installed } |-> games[id]]

\* copy.deepcopy(self.repo_metadata)
deepcopy(games) == [id \in DOMAIN games |-> games[id]]

\* check_for_installed(running) on catalog rm and file content file; its sleep(5) is
\* not awaited, so it runs from running.set() to running.clear() in one go.
\* previous_repo_metadata is assigned here before its only read and read
\* nowhere else, so it is kept as a local value of the call.
check_for_installed(running, rm, file) ==
    IF AlreadyRunning(running)
    THEN [ran |-> FALSE, file |-> file, wrote |-> FALSE]
    ELSE LET previous_repo_metadata == deepcopy(rm)
             differ == InstalledGames(rm) # InstalledGames(previous_repo_metadata)
         IN [ran |-> TRUE,
             file |-> IF differ THEN JsonDump(rm) ELSE file,
             wrote |-> differ]

\* A variant of InstalledGuard: both tasks are given the same Event.
SharedGuard(new_flag, installed_flag) == new_flag

\* tick() gives check_for_installed the Event installed_task_running, an
\* object of its own next to new_game_task_running.
InstalledGuard(new_flag, installed_flag) == installed_flag

\* The stretches check_for_new_games can run from the current state, one for
\* each order the root can be listed in.
CngRuns == { check_for_new_games(order) : order \in Orders }

\* tick(): both tasks are created; the loop runs them one after the other:
\* check_for_new_games does a, then check_for_installed runs.
tick(a) ==
    \E b \in { check_for_installed(
                   InstalledGuard(a.flag, installed_task_running),
                   a.rm, a.file) } :
       /\ fs' = a.fs
       /\ repo_metadata' = a.rm
       /\ inst' = a.inst
       /\ uuids_issued' = a.issued
       /\ new_game_task_running' = a.flag
       /\ cng_sleeping' = a.sleeping
       /\ cng_parked' = IF a.outcome = "parked"
                        THEN cng_parked \cup
                             { [ids_before |-> a.before, ids_after |-> DOMAIN a.rm] }
                        ELSE cng_parked
       /\ repo_metadata_file' = b.file
       /\ installed_task_running' = FALSE
       /\ host_games' = (host_games \cup a.adds) \ a.removes
       /\ quiet' = IF a.outcome = "dropped" THEN quiet ELSE TRUE
       /\ ev' = [Ev("tick") EXCEPT !.cng = a.outcome, !.before = a.before,
                                   !.adds = a.adds, !.removes = a.removes,
                                   !.ids = a.ids, !.again = quiet,
                                   !.dup = a.adds \cap host_games,
                                   !.scanned = a.outcome # "dropped",
                                   !.raised = a.outcome = "raised",
                                   !.wrote = a.wrote \/ b.wrote,
                                   !.log = a.log \o
                                       (IF b.wrote
                                        THEN << Step("json.dump", DOMAIN a.rm, "none") >>
                                        ELSE << >>),
                                   !.res = IF b.ran THEN "checked" ELSE "none"]
       /\ UNCHANGED fs_ops

Tick == \E a \in CngRuns : tick(a)

\* The event loop resumes the suspended check_for_new_games: after
\* `await asyncio.sleep(5)` it does running.clear(); a run that waited at
\* `await self.get_games()` goes on from `ids_after = ...` with the catalog
\* as it is by then.
CngWake ==
    /\ ~ (cng_sleeping = 0 /\ cng_parked = {})
    /\ IF cng_parked = {}
       THEN /\ cng_sleeping' = cng_sleeping - 1
            /\ new_game_task_running' = FALSE
            /\ ev' = Ev("wake")
            /\ UNCHANGED << fs, repo_metadata_file, repo_metadata,
                            installed_task_running, inst, cng_parked,
                            host_games, uuids_issued, fs_ops, quiet >>
       ELSE \E p \in cng_parked :
            \E a \in { cng_body([fs |-> fs, rm |-> repo_metadata, inst |-> inst,
                                 issued |-> uuids_issued,
                                 ids |-> [d \in Dirs |-> NoUuid]],
                                p.ids_before, p.ids_after,
                                repo_metadata_file, cng_sleeping) } :
               /\ cng_parked' = cng_parked \ {p}
               /\ repo_metadata' = a.rm
               /\ inst' = a.inst
               /\ repo_metadata_file' = a.file
               /\ new_game_task_running' = a.flag
               /\ cng_sleeping' = a.sleeping
               /\ host_games' = (host_games \cup a.adds) \ a.removes
               /\ ev' = [Ev("wake") EXCEPT !.cng = a.outcome,
                                           !.dup = a.adds \cap host_games,
                                           !.before = a.before,
                                           !.adds = a.adds,
                                           !.removes = a.removes,
                                           !.raised = a.outcome = "raised",
                                           !.wrote = a.wrote, !.log = a.log]
               /\ UNCHANGED << fs, installed_task_running, uuids_issued,
                               fs_ops, quiet >>

\* ------------------------------------------------------------ host requests

\* get_owned_games: the scan, whose outcome is s, then json.dump of the
\* catalog (not reached when the scan raises).
get_owned_games(s) ==
       /\ fs' = s.fs
       /\ repo_metadata' = s.rm
       /\ inst' = s.inst
       /\ uuids_issued' = s.issued
       /\ repo_metadata_file' =
              IF s.raised THEN repo_metadata_file ELSE JsonDump(s.rm)
       /\ ev' = [Ev("owned") EXCEPT !.scanned = TRUE, !.raised = s.raised,
                                    !.ids = s.ids,
                                    !.wrote = ~ s.raised,
                                    !.log = IF s.raised THEN << >>
                                            ELSE << Step("json.dump", DOMAIN s.rm, "none") >>]
       /\ UNCHANGED << new_game_task_running, installed_task_running,
                       cng_sleeping, cng_parked, host_games, fs_ops, quiet >>

\* The outcomes of get_games from the current state, one for each order the
\* root can be listed in.
Scans == { get_games(order) : order \in Orders }

GetOwnedGames == \E s \in Scans : get_owned_games(s)

\* The ids the host can ask for: every uuid a scan has ever reported.
KnownIds == 1 .. uuids_issued

\* install_game(game_id) up to `await asyncio.create_subprocess_shell(...)`:
\* KeyError for an id the catalog does not hold, a plain return when the
\* record has no installer, else the child process is started.  The host
\* does not ask for a game whose install is still running (the guard at the
\* caller boundary of the specification).
install_game(game_id) ==
    /\ game_id \notin DOMAIN inst
    /\ Cardinality(DOMAIN inst) < MaxInstalls
    /\ IF game_id \notin DOMAIN repo_metadata
       THEN /\ ev' = [Ev("install") EXCEPT !.id = game_id, !.raised = TRUE,
                                           !.res = "keyerror"]
            /\ UNCHANGED inst
       ELSE IF repo_metadata[game_id].installer = NoInstaller
       THEN /\ ev' = [Ev("install") EXCEPT !.id = game_id,
                                           !.res = "noinstaller"]
            /\ UNCHANGED inst
       ELSE /\ inst' = Put(inst, game_id, TRUE)
            /\ ev' = [Ev("install") EXCEPT !.id = game_id, !.res = "spawned"]
    /\ UNCHANGED << fs, repo_metadata_file, repo_metadata,
                    new_game_task_running,
                    installed_task_running, cng_sleeping, cng_parked,
                    host_games, uuids_issued, fs_ops, quiet >>

InstallGame == \E game_id \in KnownIds : install_game(game_id)

\* A variant of InstalledAfter: the flag is set whatever the exit code.
InstalledAnyway(installed, returncode) == TRUE

\* `if proc.returncode == 0: game.installed = True`
InstalledAfter(installed, returncode) ==
    IF returncode = 0 THEN TRUE ELSE installed

\* proc.communicate() returns in the call for game_id with the given exit
\* code.  The flag is set on the object `game` holds: it shows in the catalog
\* only when the catalog still holds that object.
install_exit(game_id, returncode) ==
    /\ game_id \in DOMAIN inst
    /\ repo_metadata' =
           IF inst[game_id] /\ game_id \in DOMAIN repo_metadata
           THEN [repo_metadata EXCEPT ![game_id].installed =
                    InstalledAfter(repo_metadata[game_id].installed, returncode)]
           ELSE repo_metadata
    /\ inst' = Drop(inst, {game_id})
    /\ ev' = [Ev("exit") EXCEPT !.id = game_id, !.code = returncode,
                                !.res = IF inst[game_id] THEN "live" ELSE "stale"]
    /\ UNCHANGED << fs, repo_metadata_file, new_game_task_running,
                    installed_task_running, cng_sleeping, cng_parked,
                    host_games, uuids_issued, fs_ops, quiet >>

InstallExit ==
    \E game_id \in KnownIds, returncode \in {0, 1} : install_exit(game_id, returncode)

\* ------------------------------------------------------------ environment

\* The user adds a sub-directory: a new one, or a copy of an existing one
\* (the copy carries the uuid of the original).  Names play no part in the
\* plugin and every listing order is considered, so the new directory takes
\* the first free name.
MkDir ==
    /\ fs_ops < MaxFsOps
    /\ \E d \in { x \in Dirs \ Listed : \A y \in Dirs : y < x => y \in Listed } :
      \E e \in NewDirEntries \cup { fs[x] : x \in Listed } :
        /\ fs' = [fs EXCEPT ![d] = e]
        /\ fs_ops' = fs_ops + 1
        /\ quiet' = FALSE
        /\ ev' = Ev("mkdir")
        /\ UNCHANGED << repo_metadata_file, repo_metadata,
                        new_game_task_running,
                        installed_task_running, cng_sleeping, cng_parked,
                        inst, host_games, uuids_issued >>

\* The user deletes a sub-directory.
RmDir ==
    /\ fs_ops < MaxFsOps
    /\ \E d \in Listed :
        /\ fs' = [fs EXCEPT ![d] = AbsentDir]
        /\ fs_ops' = fs_ops + 1
        /\ quiet' = FALSE
        /\ ev' = Ev("rmdir")
        /\ UNCHANGED << repo_metadata_file, repo_metadata,
                        new_game_task_running,
                        installed_task_running, cng_sleeping, cng_parked,
                        inst, host_games, uuids_issued >>

\* The writes of local_repo.json a handler can come to when its scan has
\* the outcome s: that of get_owned_games when the scan does not raise and
\* that of a check_for_new_games that gets to its json.dump, each with the
\* disk the handler leaves and the content it writes.
WritesAfter(s) ==
    (IF s.raised THEN {}
     ELSE { [fs |-> s.fs, issued |-> s.issued, file |-> JsonDump(s.rm)] })
    \cup
    { [fs |-> a.fs, issued |-> a.issued, file |-> a.file] :
          a \in { c \in { check_for_new_games_after(s) } : c.wrote } }

Writes == UNION { WritesAfter(s) : s \in Scans }

\* The plugin process is ended (killed, power cut) while one of these runs
\* is inside its json.dump, and the launcher starts a new process.  The
\* scan of the run has happened; the file holds nothing, a first part of
\* the dump or, when the end came after the last byte, all of it.
WriteKilled ==
    \E w \in Writes :
      \E f \in TornFiles(w.file) \cup { w.file } :
        /\ fs' = w.fs
        /\ uuids_issued' = w.issued
        /\ repo_metadata_file' = f
        /\ repo_metadata' = EmptyMap
        /\ new_game_task_running' = FALSE
        /\ installed_task_running' = FALSE
        /\ cng_sleeping' = 0
        /\ cng_parked' = {}
        /\ inst' = EmptyMap
        /\ host_games' = {}
        /\ quiet' = FALSE
        /\ ev' = Ev("killed")
        /\ UNCHANGED fs_ops

\* The plugin process ends and the launcher starts a new one: the class
\* attributes take their initial values, __init__ touches local_repo.json;
\* the disk keeps what it holds.
Restart ==
    /\ ev.op \notin {"init", "killed"}
    /\ repo_metadata' = EmptyMap
    /\ new_game_task_running' = FALSE
    /\ installed_task_running' = FALSE
    /\ cng_sleeping' = 0
    /\ cng_parked' = {}
    /\ inst' = EmptyMap
    /\ host_games' = {}
    /\ quiet' = FALSE
    /\ ev' = Ev("init")
    /\ UNCHANGED << fs, repo_metadata_file, uuids_issued, fs_ops >>

\* ------------------------------------------------------------ specification

\* A first start on an empty repository root.
Init ==
    /\ fs = [d \in Dirs |-> AbsentDir]
    /\ repo_metadata_file = EmptyFile
    /\ repo_metadata = EmptyMap
    /\ new_game_task_running = FALSE
    /\ installed_task_running = FALSE
    /\ cng_sleeping = 0
    /\ cng_parked = {}
    /\ inst = EmptyMap
    /\ host_games = {}
    /\ uuids_issued = 0
    /\ fs_ops = 0
    /\ quiet = FALSE
    /\ ev = Ev("init")

Next ==
    \/ Tick
    \/ CngWake
    \/ GetOwnedGames
    \/ InstallGame
    \/ InstallExit
    \/ MkDir
    \/ RmDir
    \/ WriteKilled
    \/ Restart

Spec == Init /\ [][Next]_vars

\* ------------------------------------------------------------ claims

\* A reconciliation that got past its guard and through its scan.
Reconciled == ev.op = "tick" /\ ev.cng \in {"same", "changed"}

\* The ids of the packages the root holds: the valid descriptors on disk.
DiskIds ==
    { fs[d].uuid : d \in { x \in Listed : fs[x].kind = "desc" /\ fs[x].title # NoTitle } }

\* C1: at most one call of a periodic task is between running.set() and
\* running.clear() (for check_for_installed none is ever suspended there), and
\* a tick that finds the flag of check_for_new_games set scans nothing, sends
\* no notification, writes nothing and leaves no call waiting behind.
C1_SingleFlight ==
    /\ [](/\ cng_sleeping <= 1
          /\ (cng_sleeping = 1 => new_game_task_running)
          /\ ~ installed_task_running)
    /\ [][ (new_game_task_running /\ ev'.op = "tick") =>
              /\ ev'.cng = "dropped"
              /\ ~ ev'.scanned /\ ev'.adds = {} /\ ev'.removes = {}
              /\ ~ ev'.wrote
              /\ fs' = fs
              /\ repo_metadata' = repo_metadata
              /\ repo_metadata_file' = repo_metadata_file
              /\ cng_sleeping' = cng_sleeping ]_vars

\* A tick is dropped while a call sleeps, although the root holds a package
\* the catalog does not know.
C1_Witness ==
    /\ ev.op = "tick" /\ ev.cng = "dropped"
    /\ cng_sleeping = 1
    /\ DiskIds \ DOMAIN repo_metadata # {}

\* C2: a reconciliation sends add for exactly the ids on disk that the
\* previous catalog lacks and remove for exactly the ids of the previous
\* catalog that are no more on disk, and no id gets both.
C2_DiffExact ==
    Reconciled =>
        /\ ev.adds = DiskIds \ ev.before
        /\ ev.removes = ev.before \ DiskIds
        /\ ev.adds \cap ev.removes = {}

\* C3: after a completed reconciliation neither the catalog nor the cache
\* file holds a record whose directory is gone from the disk.
C3_DeletedDirEvicted ==
    Reconciled =>
        /\ \A id \in DOMAIN repo_metadata :
               fs[repo_metadata[id].location].kind # "absent"
        /\ \A id \in DOMAIN repo_metadata_file.data :
               fs[repo_metadata_file.data[id].location].kind # "absent"

\* C4: a tick that comes after a reconciliation of this process, with no
\* change of the root by the user in between, sends no notification and does
\* not write the cache file.
C4_Idempotent ==
    [][ (quiet /\ ev'.op = "tick") =>
           /\ ev'.adds = {} /\ ev'.removes = {}
           /\ ~ ev'.wrote
           /\ repo_metadata_file' = repo_metadata_file ]_vars

\* A reconciliation that follows another one on an unchanged root with a
\* package: it ran its scan and found the catalog as it was.
C4_Witness ==
    /\ ev.op = "tick" /\ ev.again /\ ev.cng = "same"
    /\ DiskIds # {}
    /\ DiskIds \subseteq DOMAIN repo_metadata

\* C5: the id a scan has for a directory is the uuid its descriptor holds
\* after the scan (a generated one is written back), and the uuid of a
\* descriptor, once set, stays as long as the user leaves the directory alone.
C5_StableId ==
    /\ [](ev.scanned =>
            \A d \in Dirs : ev.ids[d] # NoUuid =>
                fs[d].kind = "desc" /\ fs[d].uuid = ev.ids[d])
    /\ [][ \A d \in Dirs :
              (fs[d].kind = "desc" /\ fs[d].uuid # NoUuid /\ fs'[d].kind = "desc")
                  => fs'[d].uuid = fs[d].uuid ]_vars

\* A later scan of the one directory ever made, whose descriptor came
\* without uuid: the catalog held the generated id before this scan, the scan
\* has the same id for the directory, and no second uuid was generated.
C5_Witness ==
    /\ ev.op = "tick" /\ ev.cng = "same"
    /\ fs_ops = 1
    /\ uuids_issued = 1
    /\ ev.before = {1}
    /\ ev.ids[1] = 1
    /\ fs[1].uuid = 1

\* C6: when install_game returns after exit code zero, the record of that id
\* in the catalog is installed.
C6_InstalledOnReturn ==
    (ev.op = "exit" /\ ev.code = 0) =>
        /\ ev.id \in DOMAIN repo_metadata
        /\ repo_metadata[ev.id].installed

\* C7: after check_for_installed has run, the cache file shows installed for
\* every record the catalog holds as installed.
C7_FlipPersisted ==
    (ev.op = "tick" /\ ev.res = "checked") =>
        \A id \in DOMAIN repo_metadata :
            repo_metadata[id].installed =>
                /\ repo_metadata_file.state = "json"
                /\ id \in DOMAIN repo_metadata_file.data
                /\ repo_metadata_file.data[id].installed

\* C8: an install_game that finds no installer starts no process and changes
\* neither catalog nor cache file; one whose child exits with a code other
\* than zero leaves catalog and cache file as they were.
C8_FailedInstallFrame ==
    [][ /\ (ev'.op = "install" /\ ev'.res = "noinstaller") =>
              /\ inst' = inst
              /\ repo_metadata' = repo_metadata
              /\ repo_metadata_file' = repo_metadata_file
        /\ (ev'.op = "exit" /\ ev'.code # 0) =>
              /\ repo_metadata' = repo_metadata
              /\ repo_metadata_file' = repo_metadata_file ]_vars

\* The child of an install whose record is still the catalog's exits with
\* code 1, and the record is not installed.
C8_Witness ==
    /\ ev.op = "exit" /\ ev.code = 1 /\ ev.res = "live"
    /\ ev.id \in DOMAIN repo_metadata
    /\ ~ repo_metadata[ev.id].installed

\* C9: after a scan every directory with a valid descriptor is in the
\* catalog under the uuid of its descriptor, whatever else the root holds.
C9_OnlyBadDirSkipped ==
    ev.scanned =>
        \A d \in Listed :
            (fs[d].kind = "desc" /\ fs[d].title # NoTitle) =>
                /\ fs[d].uuid \in DOMAIN repo_metadata
                /\ repo_metadata[fs[d].uuid].location \in
                       { x \in Listed : fs[x].uuid = fs[d].uuid }

\* C10: the tick after a tick whose reconciliation raised is not dropped: it
\* starts a reconciliation that scans again.
C10_NextTickRetries ==
    [][ (ev.op = "tick" /\ ev.cng = "raised" /\ ev'.op = "tick") =>
           (ev'.cng # "dropped" /\ ev'.scanned) ]_vars

\* C11: when the process ends inside a write of the cache file, the file
\* holds afterwards either what it held before the write or the whole of
\* what the run was writing.
C11_WriteAtomic ==
    [][ ev'.op = "killed" =>
           \/ repo_metadata_file' = repo_metadata_file
           \/ \E w \in Writes : repo_metadata_file' = w.file ]_vars

\* A start on a root that holds no cache yet: nothing in the catalog, zero
\* bytes in local_repo.json, no reconciliation under way.
Fresh ==
    /\ repo_metadata = EmptyMap
    /\ repo_metadata_file = EmptyFile
    /\ ~ new_game_task_running
    /\ cng_sleeping = 0

\* C12: the first scan after a fresh start, by a tick or by get_owned_games,
\* leaves in the cache file the JSON mapping of the scanned catalog: one entry
\* for each package on disk under the uuid of its descriptor, none installed,
\* and the empty mapping when the root holds no package.
C12_FirstScanPersisted ==
    [][ (Fresh /\ ev'.scanned /\ ~ ev'.raised) =>
           /\ repo_metadata_file'.state = "json"
           /\ repo_metadata_file' = JsonDump(repo_metadata')
           /\ DOMAIN repo_metadata_file'.data = DiskIds'
           /\ \A id \in DOMAIN repo_metadata_file'.data :
                  ~ repo_metadata_file'.data[id].installed ]_vars

\* C13: the guard flag of check_for_new_games is set only while a run of it
\* is under way: once the body of a run has ended, by whatever path, the flag
\* is clear again.
C13_GuardReleased ==
    new_game_task_running => (cng_sleeping > 0 \/ cng_parked # {})

C15_RemoveBeforeEvict ==
    Reconciled =>
        \A id \in ev.before \ DiskIds :
            \E i, j \in DOMAIN ev.log :
                /\ i < j
                /\ ev.log[i].step = "remove_game"
                /\ ev.log[i].obj = "copy"
                /\ id \in ev.log[i].ids
                /\ ev.log[j].step = "del"
                /\ id \in ev.log[j].ids

\* C16: in a tick each task is dropped by its own flag and by nothing else:
\* check_for_installed runs whenever installed_task_running is clear, also
\* when new_game_task_running is set, and check_for_new_games runs whenever
\* new_game_task_running is clear.
C16_GuardsIndependent ==
    [][ ev'.op = "tick" =>
           /\ (ev'.res = "checked") <=> ~ installed_task_running
           /\ (ev'.cng # "dropped") <=> ~ new_game_task_running ]_vars

\* A tick whose check_for_new_games is dropped while its check_for_installed
\* runs.
C16_Witness ==
    /\ ev.op = "tick" /\ ev.cng = "dropped" /\ ev.res = "checked"
    /\ new_game_task_running

\* C17: a tick that comes while a run of check_for_new_games is in its
\* sleep(5) drops that task, and a tick that comes right after a tick in
\* which check_for_installed ran its body, nothing having happened in
\* between, drops check_for_installed.
C17_CoolDown ==
    [][ ev'.op = "tick" =>
           /\ cng_sleeping > 0 => ev'.cng = "dropped"
           /\ (ev.op = "tick" /\ ev.res = "checked") => ev'.res # "checked" ]_vars

\* C18: what a handler writes into the cache file is the catalog as it is
\* when the handler ends its stretch, and a reconciliation that writes leaves
\* as catalog the ids it started from, plus the ids it sent add_game for,
\* less the ids it sent remove_game for: nothing else came in between.
C18_WriteSerialized ==
    /\ ev.wrote => repo_metadata_file = JsonDump(repo_metadata)
    /\ ev.cng = "changed" =>
           /\ ev.wrote
           /\ DOMAIN repo_metadata = (ev.before \cup ev.adds) \ ev.removes

\* A reconciliation writes the cache file while an install_game call waits
\* for its child process.
C18_Witness ==
    /\ ev.op = "tick" /\ ev.cng = "changed" /\ ev.wrote
    /\ DOMAIN inst # {}
    /\ DOMAIN inst \subseteq DOMAIN repo_metadata

\* C19: a record that is installed stays installed as long as the catalog
\* holds its id.
C19_InstalledKept ==
    [][ \A id \in DOMAIN repo_metadata \cap DOMAIN repo_metadata' :
            repo_metadata[id].installed => repo_metadata'[id].installed ]_vars

\* C20: no run passes to add_game an id the host holds already through an
\* earlier add_game with no remove_game since, and a run passes to
\* remove_game only ids the catalog held when the run began.
C20_NoRepeatedAdd ==
    /\ ev.dup = {}
    /\ ev.removes \subseteq ev.before

\* A run sends add_game for a new package while the host holds another one
\* from an earlier run.
C20_Witness ==
    /\ ev.op = "tick" /\ ev.cng = "changed"
    /\ ev.adds # {}
    /\ host_games \ ev.adds # {}
    /\ host_games \ ev.adds \subseteq ev.before

====
